---- MODULE Spec2Model ----
(***************************************************************************)
(* Model of compiler/AST/ForLoop.cpp: the factory that lowers a surface    *)
(* loop into the canonical block (doBuildForLoop and its four presets),    *)
(* the anonymous-range peephole (tryToReplaceWithDirectRangeIterator),     *)
(* the ForLoop node operations, and the execution of the emitted block.    *)
(***************************************************************************)
EXTENDS Integers, Sequences, FiniteSets, TLC

(***************************************************************************)
(* Bounds of the model.                                                    *)
(***************************************************************************)
MaxZip == 3
MaxIntents == 2
MaxBody == 2
MaxIters == 2

(***************************************************************************)
(* Expression trees.  Every AST node is a record [kind, name, args]:       *)
(*   "sym"   a SymExpr / UnresolvedSymExpr naming `name`                   *)
(*   "call"  a CallExpr whose baseExpr is the unresolved name `name`       *)
(*   "prim"  a CallExpr whose primitive is `name`                          *)
(*   "def"   a DefExpr of the symbol `name`                                *)
(*   "defer" a DeferStmt whose body is args[1]                             *)
(*   "block" a BlockStmt holding args                                      *)
(*   "goto"  a (conditional) break / continue / return                     *)
(*   "loop"  the ForLoop node (its fields live in the variable loop)       *)
(*   "null"  the null pointer                                              *)
(***************************************************************************)
Node(k, n, a) == [kind |-> k, name |-> n, args |-> a]
NULL == Node("null", "", <<>>)
Sym(n) == Node("sym", n, <<>>)
Call(n, a) == Node("call", n, a)
Prim(n, a) == Node("prim", n, a)
DefExpr(n) == Node("def", n, <<>>)
DeferStmt(c) == Node("defer", "", <<c>>)
BlockStmt(tag, a) == Node("block", tag, a)
GotoStmt(n) == Node("goto", n, <<>>)
LoopNode == Node("loop", "ForLoop", <<>>)

toCallExpr(e) == IF e.kind \in {"call", "prim"} THEN e ELSE NULL
toSymExpr(e) == IF e.kind = "sym" THEN e ELSE NULL
isNamed(e, n) == e.kind = "call" /\ e.name = n
isPrimitive(e, p) == e.kind = "prim" /\ e.name = p
get(e, i) == IF i \in 1..Len(e.args) THEN e.args[i] ELSE NULL

\* Variant: the bounds of a plain bounded range are copied in the wrong order.
tryToReplace_SwappedBounds(noOpt, iteratorExpr) ==
  IF noOpt THEN iteratorExpr
  ELSE IF toCallExpr(iteratorExpr) = NULL THEN iteratorExpr
  ELSE
    LET call == toCallExpr(iteratorExpr)
        byCall == isNamed(call, "chpl_by")
        countCall == ~byCall /\ isNamed(call, "#")
        range == IF byCall \/ countCall THEN toCallExpr(get(call, 1)) ELSE call
        stride == IF byCall THEN get(call, 2) ELSE NULL
        count == IF countCall THEN get(call, 2) ELSE NULL
        fullyBounded == isNamed(range, "chpl_build_bounded_range")
        lowBounded == isNamed(range, "chpl_build_low_bounded_range")
    IN IF range = NULL THEN iteratorExpr
       ELSE IF ~fullyBounded /\ ~lowBounded THEN iteratorExpr
       ELSE IF stride = NULL /\ count = NULL /\ fullyBounded
         THEN Call("chpl_direct_range_iter", <<get(range, 2), get(range, 1)>>)
       ELSE IF stride # NULL /\ count = NULL /\ fullyBounded
         THEN Call("chpl_direct_strided_range_iter",
                   <<get(range, 1), get(range, 2), stride>>)
       ELSE IF stride = NULL /\ count # NULL /\ lowBounded
         THEN Call("chpl_direct_counted_range_iter", <<get(range, 1), count>>)
       ELSE iteratorExpr

\* Variant: the first case forgets to test that there is no count.
tryToReplace_NoCountCheck(noOpt, iteratorExpr) ==
  IF noOpt THEN iteratorExpr
  ELSE IF toCallExpr(iteratorExpr) = NULL THEN iteratorExpr
  ELSE
    LET call == toCallExpr(iteratorExpr)
        byCall == isNamed(call, "chpl_by")
        countCall == ~byCall /\ isNamed(call, "#")
        range == IF byCall \/ countCall THEN toCallExpr(get(call, 1)) ELSE call
        stride == IF byCall THEN get(call, 2) ELSE NULL
        count == IF countCall THEN get(call, 2) ELSE NULL
        fullyBounded == isNamed(range, "chpl_build_bounded_range")
        lowBounded == isNamed(range, "chpl_build_low_bounded_range")
    IN IF range = NULL THEN iteratorExpr
       ELSE IF ~fullyBounded /\ ~lowBounded THEN iteratorExpr
       ELSE IF stride = NULL /\ fullyBounded
         THEN Call("chpl_direct_range_iter", <<get(range, 1), get(range, 2)>>)
       ELSE IF stride # NULL /\ count = NULL /\ fullyBounded
         THEN Call("chpl_direct_strided_range_iter",
                   <<get(range, 1), get(range, 2), stride>>)
       ELSE IF stride = NULL /\ count # NULL /\ lowBounded
         THEN Call("chpl_direct_counted_range_iter", <<get(range, 1), count>>)
       ELSE iteratorExpr

(***************************************************************************)
(* tryToReplaceWithDirectRangeIterator: the expression that stands in the  *)
(* place of iteratorExpr when the function returns.                        *)
(***************************************************************************)
tryToReplaceWithDirectRangeIterator(noOpt, iteratorExpr) ==
  IF noOpt THEN iteratorExpr
  ELSE IF toCallExpr(iteratorExpr) = NULL THEN iteratorExpr
  ELSE
    LET call == toCallExpr(iteratorExpr)
        byCall == isNamed(call, "chpl_by")
        countCall == ~byCall /\ isNamed(call, "#")
        range == IF byCall \/ countCall THEN toCallExpr(get(call, 1)) ELSE call
        stride == IF byCall THEN get(call, 2) ELSE NULL
        count == IF countCall THEN get(call, 2) ELSE NULL
        fullyBounded == isNamed(range, "chpl_build_bounded_range")
        lowBounded == isNamed(range, "chpl_build_low_bounded_range")
    IN IF range = NULL THEN iteratorExpr
       ELSE IF ~fullyBounded /\ ~lowBounded THEN iteratorExpr
       ELSE IF stride = NULL /\ count = NULL /\ fullyBounded
         THEN Call("chpl_direct_range_iter", <<get(range, 1), get(range, 2)>>)
       ELSE IF stride # NULL /\ count = NULL /\ fullyBounded
         THEN Call("chpl_direct_strided_range_iter",
                   <<get(range, 1), get(range, 2), stride>>)
       ELSE IF stride = NULL /\ count # NULL /\ lowBounded
         THEN Call("chpl_direct_counted_range_iter", <<get(range, 1), count>>)
       ELSE iteratorExpr

(***************************************************************************)
(* Symbols created by doBuildForLoop (newTemp / new LabelSymbol).          *)
(***************************************************************************)
IndexName == "_indexOfInterest"
IteratorName == "_iterator"
ContinueLabelName == "_continueLabel"
BreakLabelName == "_breakLabel"
ElidedIdxName == "chpl__elidedIdx"

(***************************************************************************)
(* The ForLoop node.  ForLoop::ForLoop() and ForLoop::ForLoop(index, ...). *)
(* LoopStmt(initBody) puts initBody, when given, at the tail of the (empty)*)
(* statement list; the labels, the order-independent flag and the legacy   *)
(* slots blockInfo / useList / byrefVars start out empty.                  *)
(***************************************************************************)
ForLoopDefault ==
  [mIndex |-> NULL, mIterator |-> NULL,
   mZippered |-> FALSE, mLoweredForall |-> FALSE, mIsForExpr |-> FALSE,
   mOrderIndependent |-> FALSE,
   mContinueLabel |-> NULL, mBreakLabel |-> NULL,
   fShadowVars |-> <<>>, body |-> <<>>,
   blockInfo |-> NULL, useList |-> NULL, byrefVars |-> NULL]

ForLoopNew(index, iterator, initBody, zippered, isLoweredForall, isForExpr) ==
  [ForLoopDefault EXCEPT
     !.mIndex = Sym(index),
     !.mIterator = Sym(iterator),
     !.mZippered = zippered,
     !.mLoweredForall = isLoweredForall,
     !.mIsForExpr = isForExpr,
     !.body = IF initBody = NULL THEN <<>> ELSE <<initBody>>]

(***************************************************************************)
(* destructureIndices (build.cpp): binds the user's index variable to the  *)
(* scratch index at the head of the loop body.                             *)
(***************************************************************************)
destructureIndices(body, indices, init) ==
  <<DefExpr(indices.name), Prim("move", <<Sym(indices.name), init>>)>> \o body

\* Variant: each intent is put at the head of the node's list.
RECURSIVE TransferIntents_AtHead(_, _)
TransferIntents_AtHead(src, dst) ==
  IF src = <<>> THEN [src |-> src, dst |-> dst]
  ELSE TransferIntents_AtHead(Tail(src), <<Head(src)>> \o dst)

(***************************************************************************)
(* Lines 302-305: while (src = intents->argList.head)                      *)
(*                  shadowVariables().insertAtTail(src->remove())          *)
(* as [src |-> what is left in the container, dst |-> the node's list].    *)
(***************************************************************************)
RECURSIVE TransferIntents(_, _)
TransferIntents(src, dst) ==
  IF src = <<>> THEN [src |-> src, dst |-> dst]
  ELSE TransferIntents(Tail(src), Append(dst, Head(src)))

\* Variant: the tuple is built back to front.
ExpandZip_Reversed(noOpt, zipExpr) ==
  LET n == Len(zipExpr.args)
  IN IF n = 1
     THEN LET zipArg == zipExpr.args[1]
              zipArgCall == toCallExpr(zipArg)
          IN IF zipArgCall # NULL
                  /\ isPrimitive(zipArgCall, "PRIM_TUPLE_EXPAND")
             THEN Call("_getIteratorZip", <<zipArgCall.args[1]>>)
             ELSE Call("_getIterator",
                       <<tryToReplaceWithDirectRangeIterator(noOpt, zipArg)>>)
     ELSE Call("_build_tuple",
               [i \in 1..n |->
                  Call("_getIterator",
                       <<tryToReplaceWithDirectRangeIterator(
                           noOpt, zipExpr.args[n + 1 - i])>>)])

\* Variant: the spread marker is left around the tuple.
ExpandZip_KeepSpread(noOpt, zipExpr) ==
  IF Len(zipExpr.args) = 1
  THEN LET zipArg == zipExpr.args[1]
           zipArgCall == toCallExpr(zipArg)
       IN IF zipArgCall # NULL /\ isPrimitive(zipArgCall, "PRIM_TUPLE_EXPAND")
          THEN Call("_getIteratorZip", <<zipArgCall>>)
          ELSE Call("_getIterator",
                    <<tryToReplaceWithDirectRangeIterator(noOpt, zipArg)>>)
  ELSE Call("_build_tuple",
            [i \in 1..Len(zipExpr.args) |->
               Call("_getIterator",
                    <<tryToReplaceWithDirectRangeIterator(noOpt,
                                                          zipExpr.args[i])>>)])

\* Variant: with several elements the optimizer is not called.
ExpandZip_SkipOptimizer(noOpt, zipExpr) ==
  IF Len(zipExpr.args) = 1
  THEN LET zipArg == zipExpr.args[1]
           zipArgCall == toCallExpr(zipArg)
       IN IF zipArgCall # NULL /\ isPrimitive(zipArgCall, "PRIM_TUPLE_EXPAND")
          THEN Call("_getIteratorZip", <<zipArgCall.args[1]>>)
          ELSE Call("_getIterator",
                    <<tryToReplaceWithDirectRangeIterator(noOpt, zipArg)>>)
  ELSE Call("_build_tuple",
            [i \in 1..Len(zipExpr.args) |->
               Call("_getIterator", <<zipExpr.args[i]>>)])

(***************************************************************************)
(* Lines 211-266: the PRIM_ZIP source rewritten in place.                  *)
(***************************************************************************)
ExpandZip(noOpt, zipExpr) ==
  IF Len(zipExpr.args) = 1
  THEN LET zipArg == zipExpr.args[1]
           zipArgCall == toCallExpr(zipArg)
       IN IF zipArgCall # NULL /\ isPrimitive(zipArgCall, "PRIM_TUPLE_EXPAND")
          THEN Call("_getIteratorZip", <<zipArgCall.args[1]>>)
          ELSE Call("_getIterator",
                    <<tryToReplaceWithDirectRangeIterator(noOpt, zipArg)>>)
  ELSE Call("_build_tuple",
            [i \in 1..Len(zipExpr.args) |->
               Call("_getIterator",
                    <<tryToReplaceWithDirectRangeIterator(noOpt,
                                                          zipExpr.args[i])>>)])

\* Variant: the optimizer is applied to the old-style source itself.
LegacyZip_OptimizeWhole(noOpt, iteratorExpr) ==
  Call("_getIteratorZip",
       <<tryToReplaceWithDirectRangeIterator(noOpt, iteratorExpr)>>)

(***************************************************************************)
(* Lines 267-279: the old-style zippered source.                           *)
(***************************************************************************)
LegacyZip(noOpt, iteratorExpr) ==
  LET call == toCallExpr(iteratorExpr)
      src == IF call # NULL /\ isNamed(call, "_build_tuple")
             THEN [call EXCEPT !.args =
                     [i \in 1..Len(call.args) |->
                        tryToReplaceWithDirectRangeIterator(noOpt,
                                                            call.args[i])]]
             ELSE iteratorExpr
  IN Call("_getIteratorZip", <<src>>)

(***************************************************************************)
(* Lines 203-280: the right-hand side of iterInit.                         *)
(***************************************************************************)
IterInitRhs(noOpt, iteratorExpr, zippered) ==
  IF ~zippered
  THEN Call("_getIterator",
            <<tryToReplaceWithDirectRangeIterator(noOpt, iteratorExpr)>>)
  ELSE LET zipExpr == toCallExpr(iteratorExpr)
       IN IF zipExpr # NULL /\ isPrimitive(zipExpr, "PRIM_ZIP")
          THEN ExpandZip(noOpt, zipExpr)
          ELSE LegacyZip(noOpt, iteratorExpr)

\* Variant: the deferred release is registered after the loop.
BuildBlock_DeferAfterLoop(iterInit, iterMove) ==
  << DefExpr(IndexName),
     DefExpr(IteratorName),
     iterInit,
     BlockStmt("BLOCK_TYPE", <<iterMove>>),
     LoopNode,
     DeferStmt(Call("_freeIterator", <<Sym(IteratorName)>>)),
     DefExpr(BreakLabelName) >>

(***************************************************************************)
(* Lines 307-320: the statements of the returned block, in order.          *)
(***************************************************************************)
BuildBlock(iterInit, iterMove) ==
  << DefExpr(IndexName),
     DefExpr(IteratorName),
     iterInit,
     DeferStmt(Call("_freeIterator", <<Sym(IteratorName)>>)),
     BlockStmt("BLOCK_TYPE", <<iterMove>>),
     LoopNode,
     DefExpr(BreakLabelName) >>

(***************************************************************************)
(* ForLoop::doBuildForLoop.  The result gathers everything the call        *)
(* leaves behind: the returned block, the node, the intents container     *)
(* and the flags of the two temporaries.                                   *)
(***************************************************************************)
doBuildForLoop(noOpt, indices, iteratorExpr, intents, body, coforall, zippered, isLoweredForall, isForExpr, isForeach) ==
  LET loop0 == ForLoopNew(IndexName, IteratorName, body,
                          zippered, isLoweredForall, isForExpr)
      loop1 == IF isForeach THEN [loop0 EXCEPT !.mOrderIndependent = TRUE]
               ELSE loop0
      iterInit == Prim("move", <<Sym(IteratorName),
                                 IterInitRhs(noOpt, iteratorExpr, zippered)>>)
      iterMove == Prim("move", <<Sym(IndexName),
                                 Call("iteratorIndex", <<Sym(IteratorName)>>)>>)
      indices1 == IF indices = NULL THEN DefExpr(ElidedIdxName) ELSE indices
      loop2 == [loop1 EXCEPT
                  !.body = destructureIndices(@, indices1, Sym(IndexName))]
      loop3 == [loop2 EXCEPT !.mContinueLabel = Sym(ContinueLabelName),
                             !.mBreakLabel = Sym(BreakLabelName)]
      moved == IF intents # NULL
               THEN TransferIntents(intents.args, loop3.fShadowVars)
               ELSE [src |-> <<>>, dst |-> loop3.fShadowVars]
      loop4 == [loop3 EXCEPT !.fShadowVars = moved.dst]
      loop5 == [loop4 EXCEPT !.body = Append(@, DefExpr(ContinueLabelName))]
  IN [retval |-> BuildBlock(iterInit, iterMove),
      loop |-> loop5,
      intents |-> IF intents = NULL THEN NULL
                  ELSE [intents EXCEPT !.args = moved.src],
      symFlags |-> [n \in {IndexName, IteratorName} |->
                      IF n = IteratorName THEN {"FLAG_EXPR_TEMP"}
                      ELSE {"FLAG_INDEX_OF_INTEREST"}
                           \cup (IF coforall THEN {"FLAG_COFORALL_INDEX_VAR"}
                                 ELSE {})]]

(***************************************************************************)
(* Inputs handed to the factory by the parser.                             *)
(***************************************************************************)
RECURSIVE SeqsUpTo(_, _)
SeqsUpTo(S, n) ==
  IF n = 0 THEN {<<>>}
  ELSE LET shorter == SeqsUpTo(S, n - 1)
       IN shorter \cup {Append(q, x) : q \in {r \in shorter : Len(r) = n - 1},
                                       x \in S}

BoundedRange(l, h) == Call("chpl_build_bounded_range", <<l, h>>)
LowBoundedRange(l) == Call("chpl_build_low_bounded_range", <<l>>)
HighBoundedRange(h) == Call("chpl_build_high_bounded_range", <<h>>)
UnboundedRange == Call("chpl_build_unbounded_range", <<>>)
By(r, s) == Call("chpl_by", <<r, s>>)
Counted(r, c) == Call("#", <<r, c>>)
Align(r, a) == Call("chpl_align", <<r, a>>)
TupleExpand(t) == Prim("PRIM_TUPLE_EXPAND", <<t>>)
Zip(elems) == Prim("PRIM_ZIP", elems)
BuildTuple(elems) == Call("_build_tuple", elems)

Operands == {Sym("a"), Sym("b"), Call("+", <<Sym("b"), Sym("a")>>)}
BaseRanges ==
  {BoundedRange(l, h) : l \in Operands, h \in Operands}
    \cup {LowBoundedRange(l) : l \in Operands}
    \cup {HighBoundedRange(Sym("b")), UnboundedRange, Sym("r"),
          Call("f", <<Sym("a"), Sym("b")>>)}
Wrapped1 ==
  {By(r, s) : r \in BaseRanges, s \in {Sym("s")}}
    \cup {Counted(r, c) : r \in BaseRanges, c \in {Sym("c")}}
    \cup {Align(BoundedRange(Sym("a"), Sym("b")), Sym("s"))}
Wrapped2 ==
  {By(w, Sym("t")) : w \in Wrapped1} \cup {Counted(w, Sym("d")) : w \in Wrapped1}
RangeSources == BaseRanges \cup Wrapped1 \cup Wrapped2

ZipElems ==
  {Sym("A"),
   BoundedRange(Sym("a"), Sym("b")),
   By(BoundedRange(Sym("a"), Sym("b")), Sym("s")),
   Counted(LowBoundedRange(Sym("a")), Sym("c")),
   TupleExpand(Sym("t"))}
ZipSources ==
  {Zip(q) : q \in SeqsUpTo(ZipElems, MaxZip) \ {<<>>}}
    \cup {Zip(<<TupleExpand(e)>>) : e \in ZipElems \cup {BuildTuple(<<Sym("A"), BoundedRange(Sym("a"), Sym("b"))>>)}}
    \cup {Zip(<<Counted(BoundedRange(Sym("a"), Sym("b")), Sym("c"))>>)}
LegacySources ==
  {BuildTuple(q) : q \in SeqsUpTo(ZipElems, 2) \ {<<>>}}
    \cup {Call("g", <<BoundedRange(Sym("a"), Sym("b"))>>)}
Sources == RangeSources \cup ZipSources \cup LegacySources

Indices == {NULL, Sym("i")}
BodyStmts ==
  {Call("f", <<Sym("i")>>), GotoStmt("break"), GotoStmt("continue"),
   GotoStmt("return"), Prim("PRIM_THROW", <<>>)}
Bodies == {BlockStmt("BLOCK_NORMAL", q) : q \in SeqsUpTo(BodyStmts, MaxBody)}
DefaultBody == BlockStmt("BLOCK_NORMAL", <<Call("f", <<Sym("i")>>)>>)

ShadowVars == {DefExpr("x"), DefExpr("y"), DefExpr("z")}
IsInjective(q) == \A i, j \in 1..Len(q) : q[i] = q[j] => i = j
IntentLists == {q \in SeqsUpTo(ShadowVars, MaxIntents) : IsInjective(q)}
Intents == {NULL} \cup {Prim("intents", q) : q \in IntentLists}

\* What the factory is given when only its result is examined.
Inputs ==
  [indices : {Sym("i")}, iteratorExpr : Sources,
   intents : {NULL}, body : {DefaultBody}]
    \cup [indices : Indices, iteratorExpr : {Sym("A")},
          intents : {NULL}, body : Bodies]
    \cup [indices : Indices, iteratorExpr : {Sym("A")},
          intents : Intents, body : {DefaultBody}]

\* What it is given when the emitted block is then executed.
RunInputs ==
  [indices : {Sym("i")},
   iteratorExpr : {Sym("A")},
   intents : {NULL}, body : Bodies]

\* What it is given when later passes then operate on the node.
PassInputs ==
  [indices : Indices,
   iteratorExpr : {Sym("A")},
   intents : {NULL, Prim("intents", <<DefExpr("x")>>)},
   body : {BlockStmt("BLOCK_NORMAL", <<>>), DefaultBody}]

(***************************************************************************)
(* State.                                                                  *)
(***************************************************************************)
VARIABLES
  fNoOptimizeRangeIteration,  \* the global no-optimize switch
  pc,          \* "parse": nothing built; "built": the factory has returned;
               \* "block" / "body" / "exiting" / "left": the emitted block runs;
               \* "aborted": a fatal internal error ended the compilation
  entry,       \* the entry point that was called
  args,        \* the arguments doBuildForLoop received
  retval,      \* the block returned by the factory
  loop,        \* the ForLoop node inside retval
  intents,     \* the caller's intents container after the call
  symFlags,    \* flags of the scratch index and the scratch iterator
  lastOp,      \* the last node operation, its arguments and what it returned
  xpc,         \* execution: position in the block
  bpc,         \* execution: position in the loop body (0 outside the body)
  iters,       \* execution: loop cycles started
  deferred,    \* execution: deferred actions registered, innermost first
  acquired,    \* execution: completed acquisitions of the iterator
  released,    \* execution: _freeIterator calls run
  exitKind     \* execution: how control left: "normal", "break", "return",
               \* "throw"

buildVars == <<entry, args, retval, loop, intents, symFlags>>
runVars == <<xpc, bpc, iters, deferred, acquired, released, exitKind>>
vars == <<fNoOptimizeRangeIteration, pc, entry, args, retval, loop, intents,
          symFlags, lastOp, xpc, bpc, iters, deferred, acquired, released,
          exitKind>>

NoOp ==
  [op |-> "none", old |-> "", new |-> NULL, clone |-> ForLoopDefault,
   visited |-> <<>>, exited |-> FALSE, expr |-> NULL, map |-> <<>>]

Init ==
  /\ fNoOptimizeRangeIteration \in BOOLEAN
  /\ pc = "parse"
  /\ entry = "none"
  /\ args = NULL
  /\ retval = <<>>
  /\ loop = ForLoopDefault
  /\ intents = NULL
  /\ symFlags = [n \in {IndexName, IteratorName} |-> {}]
  /\ lastOp = NoOp
  /\ xpc = 0
  /\ bpc = 0
  /\ iters = 0
  /\ deferred = <<>>
  /\ acquired = 0
  /\ released = 0
  /\ exitKind = "none"

(***************************************************************************)
(* The factory's entry points.                                             *)
(***************************************************************************)
Build(name, indices, iteratorExpr, intentsArg, body, coforall, zippered, isLoweredForall, isForExpr, isForeach) ==
  LET r == doBuildForLoop(fNoOptimizeRangeIteration, indices, iteratorExpr,
                          intentsArg, body, coforall, zippered,
                          isLoweredForall, isForExpr, isForeach)
  IN /\ pc' = "built"
     /\ entry' = name
     /\ args' = [indices |-> indices, iteratorExpr |-> iteratorExpr,
                 intents |-> intentsArg, body |-> body,
                 coforall |-> coforall, zippered |-> zippered,
                 isLoweredForall |-> isLoweredForall,
                 isForExpr |-> isForExpr, isForeach |-> isForeach]
     /\ retval' = r.retval
     /\ loop' = r.loop
     /\ intents' = r.intents
     /\ symFlags' = r.symFlags
     /\ UNCHANGED <<fNoOptimizeRangeIteration, lastOp, runVars>>

buildForLoop(In) ==
  /\ pc = "parse"
  /\ \E inp \in In, zippered \in BOOLEAN, isForExpr \in BOOLEAN :
       /\ inp.intents = NULL
       /\ Build("buildForLoop", inp.indices, inp.iteratorExpr, NULL, inp.body,
                FALSE, zippered, FALSE, isForExpr, FALSE)

\* Variant: the foreach constructor does not ask for order independence.
buildForeachLoop_NotForeach(In) ==
  /\ pc = "parse"
  /\ \E inp \in In, zippered \in BOOLEAN, isForExpr \in BOOLEAN :
       Build("buildForeachLoop", inp.indices, inp.iteratorExpr, inp.intents,
             inp.body, FALSE, zippered, FALSE, isForExpr, FALSE)

buildForeachLoop(In) ==
  /\ pc = "parse"
  /\ \E inp \in In, zippered \in BOOLEAN, isForExpr \in BOOLEAN :
       Build("buildForeachLoop", inp.indices, inp.iteratorExpr, inp.intents,
             inp.body, FALSE, zippered, FALSE, isForExpr, TRUE)

buildCoforallLoop(In) ==
  /\ pc = "parse"
  /\ \E inp \in In, zippered \in BOOLEAN :
       /\ inp.intents = NULL
       /\ Build("buildCoforallLoop", inp.indices, inp.iteratorExpr, NULL,
                inp.body, TRUE, zippered, FALSE, FALSE, FALSE)

buildLoweredForallLoop(In) ==
  /\ pc = "parse"
  /\ \E inp \in In, zippered \in BOOLEAN, isForExpr \in BOOLEAN :
       /\ inp.intents = NULL
       /\ Build("buildLoweredForallLoop", inp.indices, inp.iteratorExpr, NULL,
                inp.body, FALSE, zippered, TRUE, isForExpr, TRUE)

\* ForLoop::ForLoop(index, iterator, initBody, ...) called by a pass
newForLoop ==
  /\ pc = "parse"
  /\ \E initBody \in {NULL, DefaultBody}, zippered \in BOOLEAN,
        isLoweredForall \in BOOLEAN, isForExpr \in BOOLEAN :
       /\ pc' = "built"
       /\ entry' = "ForLoop"
       /\ args' = [indices |-> NULL, iteratorExpr |-> NULL, intents |-> NULL,
                   body |-> initBody, coforall |-> FALSE,
                   zippered |-> zippered,
                   isLoweredForall |-> isLoweredForall,
                   isForExpr |-> isForExpr, isForeach |-> FALSE]
       /\ loop' = ForLoopNew(IndexName, IteratorName, initBody, zippered,
                             isLoweredForall, isForExpr)
  /\ UNCHANGED <<fNoOptimizeRangeIteration, retval, intents, symFlags, lastOp,
                 runVars>>

doBuildForLoopDirect(In) ==
  /\ pc = "parse"
  /\ \E inp \in In, coforall \in BOOLEAN, zippered \in BOOLEAN,
        isLoweredForall \in BOOLEAN, isForExpr \in BOOLEAN,
        isForeach \in BOOLEAN :
       Build("doBuildForLoop", inp.indices, inp.iteratorExpr, inp.intents,
             inp.body, coforall, zippered, isLoweredForall, isForExpr,
             isForeach)

(***************************************************************************)
(* Execution of the emitted block.  A DeferStmt registers its body when    *)
(* control reaches it; whatever is registered runs, innermost first, when  *)
(* control leaves the block by any path.  The loop node runs its body once *)
(* per cycle; a break goes to the break label, a continue to the continue  *)
(* label, a return or a throw leaves the block.                            *)
(***************************************************************************)
RECURSIVE FlatBody(_)
FlatBody(stmts) ==
  IF stmts = <<>> THEN <<>>
  ELSE LET h == Head(stmts)
       IN (IF h.kind = "block" THEN FlatBody(h.args) ELSE <<h>>)
            \o FlatBody(Tail(stmts))

LabelPos(stmts, label) ==
  IF \E i \in 1..Len(stmts) : stmts[i] = DefExpr(label)
  THEN CHOOSE i \in 1..Len(stmts) :
         /\ stmts[i] = DefExpr(label)
         /\ \A j \in 1..(i - 1) : stmts[j] # DefExpr(label)
  ELSE Len(stmts) + 1

AtBlock == pc = "block" /\ xpc \in 1..Len(retval)
AtBody == pc = "body" /\ bpc \in 1..Len(FlatBody(loop.body))
CurStmt == retval[xpc]
CurBodyStmt == FlatBody(loop.body)[bpc]

StartExec ==
  /\ pc = "built"
  /\ pc' = "block"
  /\ xpc' = 1
  /\ UNCHANGED <<fNoOptimizeRangeIteration, buildVars, lastOp, bpc, iters,
                 deferred, acquired, released, exitKind>>

\* a declaration or a label: nothing to run
ExecDef ==
  /\ AtBlock /\ CurStmt.kind = "def"
  /\ xpc' = xpc + 1
  /\ UNCHANGED <<fNoOptimizeRangeIteration, pc, buildVars, lastOp, bpc, iters,
                 deferred, acquired, released, exitKind>>

\* iterInit: the acquisition completes
ExecAcquire ==
  /\ AtBlock /\ isPrimitive(CurStmt, "move")
  /\ acquired' = acquired + 1
  /\ xpc' = xpc + 1
  /\ UNCHANGED <<fNoOptimizeRangeIteration, pc, buildVars, lastOp, bpc, iters,
                 deferred, released, exitKind>>

\* iterInit: the acquire-iterator call throws, nothing was acquired
ExecAcquireThrows ==
  /\ AtBlock /\ isPrimitive(CurStmt, "move")
  /\ pc' = "exiting"
  /\ exitKind' = "throw"
  /\ UNCHANGED <<fNoOptimizeRangeIteration, buildVars, lastOp, xpc, bpc, iters,
                 deferred, acquired, released>>

ExecDeferStmt ==
  /\ AtBlock /\ CurStmt.kind = "defer"
  /\ deferred' = <<CurStmt.args[1]>> \o deferred
  /\ xpc' = xpc + 1
  /\ UNCHANGED <<fNoOptimizeRangeIteration, pc, buildVars, lastOp, bpc, iters,
                 acquired, released, exitKind>>

\* the block holding iterMove: the loop re-runs it every cycle
ExecBlockStmt ==
  /\ AtBlock /\ CurStmt.kind = "block"
  /\ xpc' = xpc + 1
  /\ UNCHANGED <<fNoOptimizeRangeIteration, pc, buildVars, lastOp, bpc, iters,
                 deferred, acquired, released, exitKind>>

LoopIterate ==
  /\ AtBlock /\ CurStmt.kind = "loop"
  /\ iters < MaxIters
  /\ iters' = iters + 1
  /\ pc' = "body"
  /\ bpc' = 1
  /\ UNCHANGED <<fNoOptimizeRangeIteration, buildVars, lastOp, xpc, deferred,
                 acquired, released, exitKind>>

LoopExhausted ==
  /\ AtBlock /\ CurStmt.kind = "loop"
  /\ xpc' = xpc + 1
  /\ UNCHANGED <<fNoOptimizeRangeIteration, pc, buildVars, lastOp, bpc, iters,
                 deferred, acquired, released, exitKind>>

\* an ordinary statement of the body, or a conditional exit not taken
BodyStep ==
  /\ AtBody
  /\ bpc' = bpc + 1
  /\ UNCHANGED <<fNoOptimizeRangeIteration, pc, buildVars, lastOp, xpc, iters,
                 deferred, acquired, released, exitKind>>

BodyBreak ==
  /\ AtBody /\ CurBodyStmt = GotoStmt("break")
  /\ pc' = "block"
  /\ xpc' = LabelPos(retval, BreakLabelName)
  /\ bpc' = 0
  /\ exitKind' = "break"
  /\ UNCHANGED <<fNoOptimizeRangeIteration, buildVars, lastOp, iters, deferred,
                 acquired, released>>

BodyContinue ==
  /\ AtBody /\ CurBodyStmt = GotoStmt("continue")
  /\ bpc' = LabelPos(FlatBody(loop.body), ContinueLabelName)
  /\ UNCHANGED <<fNoOptimizeRangeIteration, pc, buildVars, lastOp, xpc, iters,
                 deferred, acquired, released, exitKind>>

BodyReturn ==
  /\ AtBody /\ CurBodyStmt = GotoStmt("return")
  /\ pc' = "exiting"
  /\ exitKind' = "return"
  /\ UNCHANGED <<fNoOptimizeRangeIteration, buildVars, lastOp, xpc, bpc, iters,
                 deferred, acquired, released>>

BodyThrow ==
  /\ AtBody /\ isPrimitive(CurBodyStmt, "PRIM_THROW")
  /\ pc' = "exiting"
  /\ exitKind' = "throw"
  /\ UNCHANGED <<fNoOptimizeRangeIteration, buildVars, lastOp, xpc, bpc, iters,
                 deferred, acquired, released>>

\* end of one cycle: back to the loop head
BodyEnd ==
  /\ pc = "body" /\ bpc = Len(FlatBody(loop.body)) + 1
  /\ pc' = "block"
  /\ bpc' = 0
  /\ UNCHANGED <<fNoOptimizeRangeIteration, buildVars, lastOp, xpc, iters,
                 deferred, acquired, released, exitKind>>

\* control falls off the end of the block
FallOff ==
  /\ pc = "block" /\ xpc = Len(retval) + 1
  /\ pc' = "exiting"
  /\ exitKind' = IF exitKind = "break" THEN "break" ELSE "normal"
  /\ UNCHANGED <<fNoOptimizeRangeIteration, buildVars, lastOp, xpc, bpc, iters,
                 deferred, acquired, released>>

RunDeferred ==
  /\ pc = "exiting" /\ deferred # <<>>
  /\ released' = released + (IF isNamed(Head(deferred), "_freeIterator")
                             THEN 1 ELSE 0)
  /\ deferred' = Tail(deferred)
  /\ UNCHANGED <<fNoOptimizeRangeIteration, pc, buildVars, lastOp, xpc, bpc,
                 iters, acquired, exitKind>>

LeaveBlock ==
  /\ pc = "exiting" /\ deferred = <<>>
  /\ pc' = "left"
  /\ UNCHANGED <<fNoOptimizeRangeIteration, buildVars, lastOp, xpc, bpc, iters,
                 deferred, acquired, released, exitKind>>

(***************************************************************************)
(* Node operations used by later passes.  A child is named by the slot     *)
(* that points to it: "mIndex", "mIterator", or "other" for any expression *)
(* that is neither.                                                        *)
(***************************************************************************)
Slots == {"mIndex", "mIterator", "other"}
Replacements == {NULL, Sym("k"), Call("f", <<Sym("k")>>)}
SymbolMaps == {<<>>, <<<<IndexName, "_indexOfInterest2">>,
                       <<IteratorName, "_iterator2">>>>}

\* Expr::copy(map, true): a structural copy; the internal flag leaves the
\* remapping of symbols to the outermost copy
CopyInternal(e, map) == e

\* Variant: the copy also takes mLoweredForall from the original.
copyInnerOf_CopiesLowered(node, map) ==
  [ForLoopDefault EXCEPT
     !.mBreakLabel = node.mBreakLabel,
     !.mContinueLabel = node.mContinueLabel,
     !.mOrderIndependent = node.mOrderIndependent,
     !.mIndex = CopyInternal(node.mIndex, map),
     !.mIterator = CopyInternal(node.mIterator, map),
     !.mZippered = node.mZippered,
     !.mLoweredForall = node.mLoweredForall,
     !.mIsForExpr = node.mIsForExpr,
     !.body = [i \in 1..Len(node.body) |-> CopyInternal(node.body[i], map)]]

\* ForLoop::copyInner
copyInnerOf(node, map) ==
  [ForLoopDefault EXCEPT
     !.mBreakLabel = node.mBreakLabel,
     !.mContinueLabel = node.mContinueLabel,
     !.mOrderIndependent = node.mOrderIndependent,
     !.mIndex = CopyInternal(node.mIndex, map),
     !.mIterator = CopyInternal(node.mIterator, map),
     !.mZippered = node.mZippered,
     !.mIsForExpr = node.mIsForExpr,
     !.body = [i \in 1..Len(node.body) |-> CopyInternal(node.body[i], map)]]

\* SymbolMap::get: the entry of the table for a symbol, the symbol itself
\* when the table has none
MapGet(map, n) ==
  IF \E i \in 1..Len(map) : map[i][1] = n
  THEN map[CHOOSE i \in 1..Len(map) : map[i][1] = n][2]
  ELSE n

\* update_symbols: every reference to a symbol the table maps is redirected
\* to the table's entry
RECURSIVE update_symbols(_, _)
update_symbols(e, map) ==
  IF e.kind = "sym" THEN Sym(MapGet(map, e.name))
  ELSE [e EXCEPT
          !.args = [i \in 1..Len(e.args) |-> update_symbols(e.args[i], map)]]

\* Variant: the copied statements are returned without update_symbols.
copyBodyOf_NoUpdate(node, map) ==
  BlockStmt("BLOCK_NORMAL",
            [i \in 1..Len(node.body) |-> CopyInternal(node.body[i], map)])

\* ForLoop::copyBody(SymbolMap*)
copyBodyOf(node, map) ==
  update_symbols(
    BlockStmt("BLOCK_NORMAL",
              [i \in 1..Len(node.body) |-> CopyInternal(node.body[i], map)]),
    map)

\* ForLoop::isCoforallLoop: mIndex->symbol()->hasFlag(FLAG_COFORALL_INDEX_VAR)
isCoforallLoopOf(node, flags) ==
  /\ node.mIndex.name \in DOMAIN flags
  /\ "FLAG_COFORALL_INDEX_VAR" \in flags[node.mIndex.name]

\* ForLoop::isLoweredForallLoop, isForExpr, zipperedGet
isLoweredForallLoopOf(node) == node.mLoweredForall
isForExprOf(node) == node.mIsForExpr
zipperedGetOf(node) == node.mZippered

\* first expression of a statement (getFirstExpr of the other node kinds)
RECURSIVE FirstExprOf(_)
FirstExprOf(e) ==
  IF e.kind = "call" THEN Sym(e.name)
  ELSE IF e.kind \in {"prim", "block", "defer"} /\ e.args # <<>>
    THEN FirstExprOf(e.args[1])
  ELSE e

\* ForLoop::getFirstExpr
getFirstExprOf(node) ==
  IF node.mIndex # NULL THEN node.mIndex
  ELSE IF node.mIterator # NULL THEN node.mIterator
  ELSE IF node.body # <<>> THEN FirstExprOf(Head(node.body))
  ELSE LoopNode

\* Variant: the expression after the index is the first one of the body.
getNextExprOf_SkipsIterator(node, slot) ==
  LET isIndex == slot = "mIndex" /\ node.mIndex # NULL
      isIterator == slot = "mIterator" /\ node.mIterator # NULL
  IN IF isIndex /\ node.body # <<>> THEN FirstExprOf(Head(node.body))
     ELSE IF isIndex /\ node.mIterator # NULL THEN node.mIterator
     ELSE IF isIterator /\ node.body # <<>> THEN FirstExprOf(Head(node.body))
     ELSE LoopNode

\* ForLoop::getNextExpr, the argument named by its slot
getNextExprOf(node, slot) ==
  LET isIndex == slot = "mIndex" /\ node.mIndex # NULL
      isIterator == slot = "mIterator" /\ node.mIterator # NULL
  IN IF isIndex /\ node.mIterator # NULL THEN node.mIterator
     ELSE IF isIndex /\ node.body # <<>> THEN FirstExprOf(Head(node.body))
     ELSE IF isIterator /\ node.body # <<>> THEN FirstExprOf(Head(node.body))
     ELSE LoopNode

\* ForLoop::accept: what the visitor is shown, in order
acceptOf(node, enter) ==
  IF ~enter THEN <<>>
  ELSE node.body
         \o (IF node.mIndex # NULL THEN <<node.mIndex>> ELSE <<>>)
         \o (IF node.mIterator # NULL THEN <<node.mIterator>> ELSE <<>>)
         \o (IF node.useList # NULL THEN <<node.useList>> ELSE <<>>)
         \o (IF node.byrefVars # NULL THEN <<node.byrefVars>> ELSE <<>>)

\* Variant: the iterator branch tests the index and the index branch the
\* iterator.
replaceChildOf_WrongSlot(node, slot, newAst) ==
  LET se == toSymExpr(newAst)
  IN IF slot = "mIndex" THEN [node EXCEPT !.mIterator = se]
     ELSE [node EXCEPT !.mIndex = se]

\* ForLoop::replaceChild on the index or the iterator slot
replaceChildOf(node, slot, newAst) ==
  LET se == toSymExpr(newAst)
  IN IF slot = "mIndex" THEN [node EXCEPT !.mIndex = se]
     ELSE [node EXCEPT !.mIterator = se]

Passes(op, old, new) ==
  /\ pc = "built"
  /\ UNCHANGED <<fNoOptimizeRangeIteration, pc, entry, args, retval, intents,
                 symFlags, runVars>>
  /\ lastOp' = [NoOp EXCEPT !.op = op, !.old = old, !.new = new]

copyInner ==
  /\ pc = "built"
  /\ loop.mIndex # NULL /\ loop.mIterator # NULL
  /\ \E map \in SymbolMaps :
       lastOp' = [NoOp EXCEPT !.op = "copyInner", !.map = map,
                              !.clone = copyInnerOf(loop, map)]
  /\ UNCHANGED <<fNoOptimizeRangeIteration, pc, buildVars, runVars>>

\* copyBody() with its own empty table, or copyBody(map)
copyBody ==
  /\ pc = "built"
  /\ \E map \in SymbolMaps :
       lastOp' = [NoOp EXCEPT !.op = "copyBody", !.map = map,
                              !.expr = copyBodyOf(loop, map)]
  /\ UNCHANGED <<fNoOptimizeRangeIteration, pc, buildVars, runVars>>

\* mIndex->copy or mIterator->copy through a null pointer
copyInnerNull ==
  /\ pc = "built"
  /\ loop.mIndex = NULL \/ loop.mIterator = NULL
  /\ pc' = "aborted"
  /\ lastOp' = [NoOp EXCEPT !.op = "copyInner"]
  /\ UNCHANGED <<fNoOptimizeRangeIteration, buildVars, runVars>>

replaceChild ==
  /\ pc = "built"
  /\ \E slot \in {"mIndex", "mIterator"}, newAst \in Replacements :
       /\ (IF slot = "mIndex" THEN loop.mIndex ELSE loop.mIterator) # NULL
       /\ newAst = NULL \/ toSymExpr(newAst) # NULL
       /\ loop' = replaceChildOf(loop, slot, newAst)
       /\ lastOp' = [NoOp EXCEPT !.op = "replaceChild", !.old = slot,
                                 !.new = newAst]
  /\ UNCHANGED <<fNoOptimizeRangeIteration, pc, entry, args, retval, intents,
                 symFlags, runVars>>

\* INT_ASSERT(!newAst || se) fails, or the generic replacement finds no
\* slot that holds oldAst
replaceChildFatal ==
  /\ pc = "built"
  /\ \E slot \in Slots, newAst \in Replacements :
       /\ slot = "mIndex" => loop.mIndex # NULL
       /\ slot = "mIterator" => loop.mIterator # NULL
       /\ slot = "other" \/ (newAst # NULL /\ toSymExpr(newAst) = NULL)
       /\ lastOp' = [NoOp EXCEPT !.op = "replaceChild", !.old = slot,
                                 !.new = newAst]
  /\ pc' = "aborted"
  /\ UNCHANGED <<fNoOptimizeRangeIteration, buildVars, runVars>>

accept ==
  /\ pc = "built"
  /\ \E enter \in BOOLEAN :
       lastOp' = [NoOp EXCEPT !.op = "accept",
                              !.visited = acceptOf(loop, enter),
                              !.exited = enter]
  /\ UNCHANGED <<fNoOptimizeRangeIteration, pc, buildVars, runVars>>

getFirstExpr ==
  /\ pc = "built"
  /\ lastOp' = [NoOp EXCEPT !.op = "getFirstExpr",
                            !.expr = getFirstExprOf(loop)]
  /\ UNCHANGED <<fNoOptimizeRangeIteration, pc, buildVars, runVars>>

getNextExpr ==
  /\ pc = "built"
  /\ \E slot \in Slots :
       /\ slot = "mIndex" => loop.mIndex # NULL
       /\ slot = "mIterator" => loop.mIterator # NULL
       /\ lastOp' = [NoOp EXCEPT !.op = "getNextExpr", !.old = slot,
                                 !.expr = getNextExprOf(loop, slot)]
  /\ UNCHANGED <<fNoOptimizeRangeIteration, pc, buildVars, runVars>>

(***************************************************************************)
(* The structural validator.  The slots it inspects besides the index and  *)
(* the iterator belong to the generic block (BlockStmt::blockInfo,         *)
(* useList, byrefVars): the factory leaves them null, a pass can fill them *)
(* through the generic block's own interface.  BlockStmt::verify, called   *)
(* first, is taken to pass.                                                *)
(***************************************************************************)
LegacySlots == {"blockInfo", "useList", "byrefVars"}
LegacyValue == Call("legacy", <<Sym("x")>>)

\* Variant: the iterator is not checked.
verifyOf_NoIteratorCheck(node) ==
  IF node.blockInfo # NULL THEN "ForLoop::verify. blockInfo is not NULL"
  ELSE IF node.mIndex = NULL THEN "ForLoop::verify. index     is NULL"
  ELSE IF node.useList # NULL THEN "ForLoop::verify. useList   is not NULL"
  ELSE IF node.byrefVars # NULL THEN "ForLoop::verify. byrefVars is not NULL"
  ELSE ""

\* ForLoop::verify: the message of the first INT_FATAL reached, "" if none
verifyOf(node) ==
  IF node.blockInfo # NULL THEN "ForLoop::verify. blockInfo is not NULL"
  ELSE IF node.mIndex = NULL THEN "ForLoop::verify. index     is NULL"
  ELSE IF node.mIterator = NULL THEN "ForLoop::verify. iterator  is NULL"
  ELSE IF node.useList # NULL THEN "ForLoop::verify. useList   is not NULL"
  ELSE IF node.byrefVars # NULL THEN "ForLoop::verify. byrefVars is not NULL"
  ELSE ""

\* a pass stores into a slot of the generic block, one slot per node
setLegacySlot ==
  /\ pc = "built"
  /\ \A s \in LegacySlots : loop[s] = NULL
  /\ \E slot \in LegacySlots :
       /\ loop' = [loop EXCEPT ![slot] = LegacyValue]
       /\ lastOp' = [NoOp EXCEPT !.op = "setLegacySlot", !.old = slot]
  /\ UNCHANGED <<fNoOptimizeRangeIteration, pc, entry, args, retval, intents,
                 symFlags, runVars>>

\* verify returns
verify ==
  /\ pc = "built"
  /\ verifyOf(loop) = ""
  /\ lastOp' = [NoOp EXCEPT !.op = "verify"]
  /\ UNCHANGED <<fNoOptimizeRangeIteration, pc, buildVars, runVars>>

\* verify reaches an INT_FATAL
verifyFatal ==
  /\ pc = "built"
  /\ verifyOf(loop) # ""
  /\ lastOp' = [NoOp EXCEPT !.op = "verify", !.old = verifyOf(loop)]
  /\ pc' = "aborted"
  /\ UNCHANGED <<fNoOptimizeRangeIteration, buildVars, runVars>>

(***************************************************************************)
(* The accessors of the legacy condition slot, overridden by the node:     *)
(* each prints a line and returns 0.                                       *)
(***************************************************************************)
BlockInfoArgs == {NULL, LegacyValue}
MigrationGet == "Migration: ForLoop Unexpected call to blockInfoGet()"
MigrationSet == "Migration: ForLoop Unexpected call to blockInfoSet()"

\* ForLoop::blockInfoGet: the value returned
blockInfoGetOf(node) == NULL

\* Variant: the setter stores its argument in the slot of the generic block.
blockInfoSetOf_Stores(node, expr) == [node EXCEPT !.blockInfo = expr]

\* ForLoop::blockInfoSet: the node after the call
blockInfoSetOf(node, expr) == node

blockInfoGet ==
  /\ pc = "built"
  /\ lastOp' = [NoOp EXCEPT !.op = "blockInfoGet", !.old = MigrationGet,
                            !.expr = blockInfoGetOf(loop)]
  /\ UNCHANGED <<fNoOptimizeRangeIteration, pc, buildVars, runVars>>

blockInfoSet ==
  /\ pc = "built"
  /\ \E expr \in BlockInfoArgs :
       /\ loop' = blockInfoSetOf(loop, expr)
       /\ lastOp' = [NoOp EXCEPT !.op = "blockInfoSet", !.old = MigrationSet,
                                 !.new = expr, !.expr = NULL]
  /\ UNCHANGED <<fNoOptimizeRangeIteration, pc, entry, args, retval, intents,
                 symFlags, runVars>>

(***************************************************************************)
(* Specifications.  Spec: the factory alone, over every input.  SpecRun:   *)
(* the public constructors followed by the execution of the block.         *)
(* SpecPasses: the public constructors followed by node operations.        *)
(***************************************************************************)
Next ==
  \/ buildForLoop(Inputs)
  \/ buildForeachLoop(Inputs)
  \/ buildCoforallLoop(Inputs)
  \/ buildLoweredForallLoop(Inputs)
  \/ doBuildForLoopDirect(Inputs)

Spec == Init /\ [][Next]_vars

NextRun ==
  \/ buildForLoop(RunInputs)
  \/ buildForeachLoop(RunInputs)
  \/ buildCoforallLoop(RunInputs)
  \/ buildLoweredForallLoop(RunInputs)
  \/ StartExec
  \/ ExecDef
  \/ ExecAcquire
  \/ ExecAcquireThrows
  \/ ExecDeferStmt
  \/ ExecBlockStmt
  \/ LoopIterate
  \/ LoopExhausted
  \/ BodyStep
  \/ BodyBreak
  \/ BodyContinue
  \/ BodyReturn
  \/ BodyThrow
  \/ BodyEnd
  \/ FallOff
  \/ RunDeferred
  \/ LeaveBlock

SpecRun == Init /\ [][NextRun]_vars

NextPasses ==
  \/ buildForLoop(PassInputs)
  \/ buildForeachLoop(PassInputs)
  \/ buildCoforallLoop(PassInputs)
  \/ buildLoweredForallLoop(PassInputs)
  \/ newForLoop
  \/ copyInner
  \/ copyInnerNull
  \/ copyBody
  \/ replaceChild
  \/ replaceChildFatal
  \/ accept
  \/ getFirstExpr
  \/ getNextExpr
  \/ setLegacySlot
  \/ verify
  \/ verifyFatal
  \/ blockInfoGet
  \/ blockInfoSet

SpecPasses == Init /\ [][NextPasses]_vars

(***************************************************************************)
(* Vocabulary of the properties.                                           *)
(***************************************************************************)
Built == pc = "built"
Source == args.iteratorExpr

\* the acquisition statement of the block and its right-hand side
IsAcquisition(s) == isPrimitive(s, "move") /\ get(s, 1) = Sym(IteratorName)
IsHandleDecl(s) == s = DefExpr(IteratorName)
IsIndexDecl(s) == s = DefExpr(IndexName)
IsRelease(s) ==
  s.kind = "defer" /\ get(s, 1) = Call("_freeIterator", <<Sym(IteratorName)>>)
IsMaterialize(s) ==
  /\ s.kind = "block"
  /\ s.args = <<Prim("move", <<Sym(IndexName),
                               Call("iteratorIndex", <<Sym(IteratorName)>>)>>)>>
IsLoopNode(s) == s.kind = "loop"
IsBreakLabel(s) == s = DefExpr(BreakLabelName)

PositionsOf(P(_)) == {i \in 1..Len(retval) : P(retval[i])}
OnlyPos(P(_)) == CHOOSE i \in PositionsOf(P) : TRUE
ExactlyOneEach ==
  /\ Cardinality(PositionsOf(IsHandleDecl)) = 1
  /\ Cardinality(PositionsOf(IsIndexDecl)) = 1
  /\ Cardinality(PositionsOf(IsAcquisition)) = 1
  /\ Cardinality(PositionsOf(IsRelease)) = 1
  /\ Cardinality(PositionsOf(IsMaterialize)) = 1
  /\ Cardinality(PositionsOf(IsLoopNode)) = 1
  /\ Cardinality(PositionsOf(IsBreakLabel)) = 1
TailOrder ==
  /\ OnlyPos(IsAcquisition) < OnlyPos(IsRelease)
  /\ OnlyPos(IsRelease) < OnlyPos(IsMaterialize)
  /\ OnlyPos(IsMaterialize) < OnlyPos(IsLoopNode)
  /\ OnlyPos(IsLoopNode) < OnlyPos(IsBreakLabel)
  /\ OnlyPos(IsBreakLabel) = Len(retval)

AcquisitionRhs == get(retval[OnlyPos(IsAcquisition)], 2)

\* the three recognized source shapes and the call each one becomes
IsBoundedShape(e) == isNamed(e, "chpl_build_bounded_range")
IsStridedShape(e) ==
  isNamed(e, "chpl_by") /\ isNamed(get(e, 1), "chpl_build_bounded_range")
IsCountedShape(e) ==
  isNamed(e, "#") /\ isNamed(get(e, 1), "chpl_build_low_bounded_range")
Recognized(e) == IsBoundedShape(e) \/ IsStridedShape(e) \/ IsCountedShape(e)
DirectCallFor(e) ==
  IF IsBoundedShape(e)
    THEN Call("chpl_direct_range_iter", <<e.args[1], e.args[2]>>)
  ELSE IF IsStridedShape(e)
    THEN Call("chpl_direct_strided_range_iter",
              <<e.args[1].args[1], e.args[1].args[2], e.args[2]>>)
  ELSE IF IsCountedShape(e)
    THEN Call("chpl_direct_counted_range_iter", <<e.args[1].args[1], e.args[2]>>)
  ELSE e

IsZipSource == isPrimitive(Source, "PRIM_ZIP")
IsSpread(e) == isPrimitive(e, "PRIM_TUPLE_EXPAND")
SingleSpread == IsZipSource /\ Len(Source.args) = 1 /\ IsSpread(Source.args[1])

(***************************************************************************)
(* C1 (as stated): the block holds exactly one handle declaration, one     *)
(* index declaration, one acquisition, one deferred release, one           *)
(* materialization, the loop node and a trailing break label, the handle   *)
(* declaration coming before the index declaration.                        *)
(***************************************************************************)
C1_HandleDeclFirst ==
  Built => /\ ExactlyOneEach
           /\ OnlyPos(IsHandleDecl) < OnlyPos(IsIndexDecl)
           /\ OnlyPos(IsIndexDecl) < OnlyPos(IsAcquisition)
           /\ TailOrder

(***************************************************************************)
(* C1 (amended): for every entry point and every combination of flags the  *)
(* block holds exactly one of each of the seven statements and nothing     *)
(* else, in the order index declaration, handle declaration, acquisition,  *)
(* deferred release, materialization, loop node, break label.              *)
(***************************************************************************)
C1_BlockShape ==
  Built => /\ ExactlyOneEach
           /\ Len(retval) = 7
           /\ OnlyPos(IsIndexDecl) < OnlyPos(IsHandleDecl)
           /\ OnlyPos(IsHandleDecl) < OnlyPos(IsAcquisition)
           /\ TailOrder

C1_Witness ==
  /\ Built /\ entry = "buildCoforallLoop" /\ args.zippered
  /\ retval[1] = DefExpr(IndexName) /\ retval[2] = DefExpr(IteratorName)

(***************************************************************************)
(* C2: once the acquisition has run, _freeIterator runs exactly once       *)
(* before control leaves the block, whichever way it leaves: never zero    *)
(* times, never twice.                                                     *)
(***************************************************************************)
C2_ReleaseExactlyOnce ==
  /\ released <= 1
  /\ (pc = "left" /\ acquired >= 1) => released = 1

C2_Witness ==
  /\ pc = "left" /\ exitKind = "return" /\ iters = 2
  /\ acquired = 1 /\ released = 1

(***************************************************************************)
(* C3: with the switch off, each of the three recognized shapes is         *)
(* replaced by its direct-iteration call, operands unchanged and in order. *)
(***************************************************************************)
C3_RecognizedShapesRewritten ==
  (Built /\ ~fNoOptimizeRangeIteration /\ ~args.zippered) =>
    LET out == get(AcquisitionRhs, 1)
    IN /\ IsBoundedShape(Source) =>
            out = Call("chpl_direct_range_iter",
                       <<Source.args[1], Source.args[2]>>)
       /\ IsStridedShape(Source) =>
            out = Call("chpl_direct_strided_range_iter",
                       <<Source.args[1].args[1], Source.args[1].args[2],
                         Source.args[2]>>)
       /\ IsCountedShape(Source) =>
            out = Call("chpl_direct_counted_range_iter",
                       <<Source.args[1].args[1], Source.args[2]>>)

C3_Witness ==
  /\ Built /\ ~fNoOptimizeRangeIteration /\ ~args.zippered
  /\ Source = By(BoundedRange(Sym("a"), Call("+", <<Sym("b"), Sym("a")>>)),
                 Sym("s"))
  /\ AcquisitionRhs =
       Call("_getIterator",
            <<Call("chpl_direct_strided_range_iter",
                   <<Sym("a"), Call("+", <<Sym("b"), Sym("a")>>), Sym("s")>>)>>)

(***************************************************************************)
(* C4: the source is left unmodified whenever the switch is set, and, with *)
(* the switch off, for every source that is not one of the three shapes.   *)
(***************************************************************************)
C4_OtherShapesUntouched ==
  (Built /\ ~args.zippered
     /\ (fNoOptimizeRangeIteration \/ ~Recognized(Source))) =>
    AcquisitionRhs = Call("_getIterator", <<Source>>)

C4_Witness ==
  /\ Built /\ ~fNoOptimizeRangeIteration /\ ~args.zippered
  /\ Source = Counted(By(BoundedRange(Sym("a"), Sym("b")), Sym("s")), Sym("d"))
  /\ AcquisitionRhs = Call("_getIterator", <<Source>>)

(***************************************************************************)
(* C5: for an explicit lockstep source with elements e1..eN, a single      *)
(* non-spread element gives acquire-iterator(e1) with no tuple; N > 1      *)
(* gives a tuple constructor of exactly N arguments, the i-th being        *)
(* acquire-iterator(ei), ei as it was or as the optimizer rewrote it.      *)
(***************************************************************************)
C5_ZipExpansion ==
  (Built /\ args.zippered /\ IsZipSource /\ ~SingleSpread) =>
    LET elems == Source.args
        n == Len(elems)
        rhs == AcquisitionRhs
        Acquired(e, a) ==
          /\ isNamed(a, "_getIterator")
          /\ Len(a.args) = 1
          /\ a.args[1] \in {e, DirectCallFor(e)}
    IN IF n = 1 THEN Acquired(elems[1], rhs)
       ELSE /\ isNamed(rhs, "_build_tuple")
            /\ Len(rhs.args) = n
            /\ \A i \in 1..n : Acquired(elems[i], rhs.args[i])

C5_Witness ==
  /\ Built /\ args.zippered /\ fNoOptimizeRangeIteration
  /\ Source = Zip(<<Sym("A"), BoundedRange(Sym("a"), Sym("b")),
                    TupleExpand(Sym("t"))>>)
  /\ AcquisitionRhs =
       Call("_build_tuple",
            <<Call("_getIterator", <<Sym("A")>>),
              Call("_getIterator", <<BoundedRange(Sym("a"), Sym("b"))>>),
              Call("_getIterator", <<TupleExpand(Sym("t"))>>)>>)

(***************************************************************************)
(* C6 (as stated): a single spread marker wrapping T gives                 *)
(* acquire-iterator(T), the call used for a single plain element.          *)
(***************************************************************************)
C6_SpreadUsesGetIterator ==
  (Built /\ args.zippered /\ SingleSpread) =>
    AcquisitionRhs = Call("_getIterator", <<Source.args[1].args[1]>>)

(***************************************************************************)
(* C6 (amended): a single spread marker wrapping T gives                   *)
(* acquire-iterator-zip(T) (_getIteratorZip, not _getIterator), applied    *)
(* directly to T with the marker removed and no extra tuple layer.         *)
(***************************************************************************)
C6_SpreadUsesGetIteratorZip ==
  (Built /\ args.zippered /\ SingleSpread) =>
    AcquisitionRhs = Call("_getIteratorZip", <<Source.args[1].args[1]>>)

C6_Witness ==
  /\ Built /\ args.zippered
  /\ Source = Zip(<<TupleExpand(Sym("t"))>>)
  /\ AcquisitionRhs = Call("_getIteratorZip", <<Sym("t")>>)

(***************************************************************************)
(* C7 (as stated): with the switch off, whatever the number and shape of   *)
(* the elements, the single spread marker included, nothing handed to an   *)
(* acquire call after the expansion is a recognized range shape left in    *)
(* its unoptimized form.                                                   *)
(***************************************************************************)
C7_NoUnoptimizedRangeLeft ==
  (Built /\ args.zippered /\ IsZipSource /\ ~fNoOptimizeRangeIteration) =>
    LET rhs == AcquisitionRhs
    IN IF Len(Source.args) = 1 THEN ~Recognized(get(rhs, 1))
       ELSE \A i \in 1..Len(rhs.args) : ~Recognized(get(rhs.args[i], 1))

(***************************************************************************)
(* C7 (amended): with the switch off the optimizer is applied to the       *)
(* single non-spread element and to every element when N > 1: each element *)
(* of a recognized shape is replaced by its direct-iteration call and      *)
(* every other element is unchanged.  A single spread marker is the        *)
(* exception: the tuple it wraps is passed on as it is, even when it has a *)
(* recognized range shape.                                                 *)
(***************************************************************************)
C7_OptimizerPerElement ==
  (Built /\ args.zippered /\ IsZipSource /\ ~fNoOptimizeRangeIteration) =>
    LET elems == Source.args
        rhs == AcquisitionRhs
    IN IF SingleSpread THEN get(rhs, 1) = elems[1].args[1]
       ELSE IF Len(elems) = 1 THEN get(rhs, 1) = DirectCallFor(elems[1])
       ELSE \A i \in 1..Len(elems) :
              get(rhs.args[i], 1) = DirectCallFor(elems[i])

C7_Witness ==
  /\ Built /\ args.zippered /\ ~fNoOptimizeRangeIteration
  /\ Source = Zip(<<Sym("A"), By(BoundedRange(Sym("a"), Sym("b")), Sym("s"))>>)
  /\ AcquisitionRhs =
       Call("_build_tuple",
            <<Call("_getIterator", <<Sym("A")>>),
              Call("_getIterator",
                   <<Call("chpl_direct_strided_range_iter",
                          <<Sym("a"), Sym("b"), Sym("s")>>)>>)>>)

(***************************************************************************)
(* C8: a zippered source that is not the lockstep marker is wrapped whole  *)
(* in one acquire-iterator-zip call; the source keeps its shape and its    *)
(* argument count; the arguments of a flat tuple-build call are each       *)
(* passed through the optimizer; any other source is unchanged.            *)
(***************************************************************************)
C8_LegacyZip ==
  (Built /\ args.zippered /\ ~IsZipSource) =>
    LET rhs == AcquisitionRhs
        out == get(rhs, 1)
    IN /\ isNamed(rhs, "_getIteratorZip") /\ Len(rhs.args) = 1
       /\ out.kind = Source.kind /\ out.name = Source.name
       /\ Len(out.args) = Len(Source.args)
       /\ IF isNamed(Source, "_build_tuple")
          THEN \A i \in 1..Len(Source.args) :
                 out.args[i] = IF fNoOptimizeRangeIteration THEN Source.args[i]
                               ELSE DirectCallFor(Source.args[i])
          ELSE out = Source

C8_Witness ==
  /\ Built /\ args.zippered /\ ~fNoOptimizeRangeIteration
  /\ Source = BuildTuple(<<Sym("A"), BoundedRange(Sym("a"), Sym("b"))>>)
  /\ AcquisitionRhs =
       Call("_getIteratorZip",
            <<BuildTuple(<<Sym("A"),
                           Call("chpl_direct_range_iter",
                                <<Sym("a"), Sym("b")>>)>>)>>)

(***************************************************************************)
(* C9: supplied task intents end up in the node's taskIntents list, all of *)
(* them and in their original order, and the supplied container is left    *)
(* empty; with no intents supplied the node's list is empty.               *)
(***************************************************************************)
C9_IntentsMoved ==
  Built =>
    IF args.intents # NULL
    THEN /\ loop.fShadowVars = args.intents.args
         /\ intents # NULL /\ intents.args = <<>>
    ELSE loop.fShadowVars = <<>> /\ intents = NULL

C9_Witness ==
  /\ Built /\ args.intents # NULL
  /\ loop.fShadowVars = <<DefExpr("y"), DefExpr("x")>>
  /\ intents.args = <<>>

(***************************************************************************)
(* C10 (as stated): once the node is constructed its index and handle      *)
(* references are never null, whatever node operations follow.             *)
(***************************************************************************)
C10_NeverNull ==
  pc # "parse" => loop.mIndex # NULL /\ loop.mIterator # NULL

(***************************************************************************)
(* C10 (amended): the factory returns a node whose index and handle        *)
(* references are non-null, a clone of such a node has both non-null, and  *)
(* traversal, cursor queries and replacement by a reference expression     *)
(* keep them non-null; a reference becomes null only by replaceChild on    *)
(* that very reference with an absent replacement, which replaceChild      *)
(* accepts.                                                                *)
(***************************************************************************)
C10_NullOnlyByAbsentReplacement ==
  [][/\ (pc = "parse" /\ pc' = "built") =>
          loop'.mIndex # NULL /\ loop'.mIterator # NULL
     /\ (lastOp'.op = "copyInner" /\ pc' = "built") =>
          lastOp'.clone.mIndex # NULL /\ lastOp'.clone.mIterator # NULL
     /\ (pc = "built" /\ loop.mIndex # NULL /\ loop'.mIndex = NULL) =>
          /\ lastOp'.op = "replaceChild"
          /\ lastOp'.old = "mIndex" /\ lastOp'.new = NULL
     /\ (pc = "built" /\ loop.mIterator # NULL /\ loop'.mIterator = NULL) =>
          /\ lastOp'.op = "replaceChild"
          /\ lastOp'.old = "mIterator" /\ lastOp'.new = NULL]_vars

C10_Witness ==
  /\ Built /\ lastOp.op = "replaceChild"
  /\ lastOp.old = "mIterator" /\ lastOp.new = Sym("k")
  /\ loop.mIterator = Sym("k") /\ loop.mIndex = NULL

(***************************************************************************)
(* C11: the structural validator ends in a fatal internal error when the   *)
(* node's index reference is null, its iterator reference is null, its     *)
(* legacy condition slot (blockInfo) is non-empty, or its use-list or      *)
(* by-ref-var-list is non-empty, and returns without error when the node   *)
(* has none of these defects.                                              *)
(***************************************************************************)
Defective(node) ==
  \/ node.mIndex = NULL
  \/ node.mIterator = NULL
  \/ node.blockInfo # NULL
  \/ node.useList # NULL
  \/ node.byrefVars # NULL

C11_ValidatorRejectsDefects ==
  lastOp.op = "verify" => (pc = "aborted" <=> Defective(loop))

C11_Witness ==
  /\ lastOp.op = "verify" /\ pc = "aborted"
  /\ loop.mIndex # NULL /\ loop.mIterator = NULL
  /\ loop.blockInfo = NULL /\ loop.useList = NULL /\ loop.byrefVars = NULL

(***************************************************************************)
(* C12 (as stated): reaching blockInfoGet or blockInfoSet of the node is a *)
(* fatal error that aborts the compilation; the call never returns.        *)
(***************************************************************************)
IsLegacyAccessor(op) == op \in {"blockInfoGet", "blockInfoSet"}

C12_AccessorIsFatal ==
  IsLegacyAccessor(lastOp.op) => pc = "aborted"

(***************************************************************************)
(* C12 (amended): blockInfoGet and blockInfoSet of the node print a        *)
(* migration diagnostic and return null to their caller: the compilation   *)
(* is not aborted, the getter returns null whatever the slot holds, and    *)
(* the setter stores nothing, so the node is left as it was.               *)
(***************************************************************************)
C12_AccessorReturnsNull ==
  [][(pc = "built" /\ IsLegacyAccessor(lastOp'.op)) =>
        /\ pc' = "built"
        /\ loop' = loop
        /\ lastOp'.expr = NULL
        /\ lastOp'.old \in {MigrationGet, MigrationSet}]_vars

C12_Witness ==
  /\ Built /\ lastOp.op = "blockInfoSet"
  /\ lastOp.new = LegacyValue /\ lastOp.expr = NULL
  /\ loop.blockInfo = NULL

(***************************************************************************)
(* C13 (as stated): a copy made with a rename table, by copyInner or by    *)
(* copyBody, holds no reference to a symbol the table maps.                *)
(***************************************************************************)
RECURSIVE Refs(_)
Refs(e) ==
  IF e.kind = "sym" THEN {e.name}
  ELSE UNION {Refs(e.args[i]) : i \in 1..Len(e.args)}

BodyRefs(node) == UNION {Refs(node.body[i]) : i \in 1..Len(node.body)}
NodeRefs(node) == Refs(node.mIndex) \cup Refs(node.mIterator) \cup BodyRefs(node)
MappedFrom(map) == {map[i][1] : i \in 1..Len(map)}

C13_CloneRemapped ==
  /\ (Built /\ lastOp.op = "copyInner") =>
        NodeRefs(lastOp.clone) \cap MappedFrom(lastOp.map) = {}
  /\ (Built /\ lastOp.op = "copyBody") =>
        Refs(lastOp.expr) \cap MappedFrom(lastOp.map) = {}

(***************************************************************************)
(* C13 (amended): copyBody returns a block with one statement per body     *)
(* statement in which every reference to a symbol the rename table maps    *)
(* points to the table's entry and none to the original symbol.  copyInner *)
(* copies the index, the iterator and the body as they are: its copy still *)
(* refers to the original symbols, the redirection being left to the       *)
(* caller.  Neither operation changes the original node.                   *)
(***************************************************************************)
C13_BodyCopyRemapped ==
  [][/\ (pc = "built" /\ lastOp'.op = "copyBody") =>
          /\ loop' = loop
          /\ Len(lastOp'.expr.args) = Len(loop.body)
          /\ Refs(lastOp'.expr) \cap MappedFrom(lastOp'.map) = {}
          /\ Refs(lastOp'.expr) =
               {MapGet(lastOp'.map, n) : n \in BodyRefs(loop)}
     /\ (pc = "built" /\ pc' = "built" /\ lastOp'.op = "copyInner") =>
          /\ loop' = loop
          /\ lastOp'.clone.mIndex = loop.mIndex
          /\ lastOp'.clone.mIterator = loop.mIterator
          /\ lastOp'.clone.body = loop.body]_vars

C13_Witness ==
  /\ Built /\ lastOp.op = "copyBody"
  /\ IndexName \in MappedFrom(lastOp.map)
  /\ IndexName \in BodyRefs(loop)
  /\ MapGet(lastOp.map, IndexName) \in Refs(lastOp.expr)
  /\ IndexName \notin Refs(lastOp.expr)

(***************************************************************************)
(* C14: the four named constructors return the same block and the same     *)
(* node body for the same indices, source, body and zippered argument, and *)
(* differ only in flags and intents: isCoforallLoop holds exactly for      *)
(* buildCoforallLoop, the order-independent flag exactly for               *)
(* buildForeachLoop and buildLoweredForallLoop, the lowered-forall flag    *)
(* exactly for buildLoweredForallLoop; zipperedGet and isForExpr return    *)
(* the arguments passed, isForExpr being false for buildCoforallLoop.      *)
(***************************************************************************)
NamedConstructors ==
  {"buildForLoop", "buildForeachLoop", "buildCoforallLoop",
   "buildLoweredForallLoop"}

\* what the plain constructor builds from the same indices, source and body
PlainBuild ==
  doBuildForLoop(fNoOptimizeRangeIteration, args.indices, args.iteratorExpr,
                 NULL, args.body, FALSE, args.zippered, FALSE, FALSE, FALSE)

C14_ConstructorsDifferInFlags ==
  (Built /\ entry \in NamedConstructors) =>
    /\ retval = PlainBuild.retval
    /\ loop.body = PlainBuild.loop.body
    /\ loop.mIndex = PlainBuild.loop.mIndex
    /\ loop.mIterator = PlainBuild.loop.mIterator
    /\ isCoforallLoopOf(loop, symFlags) <=> entry = "buildCoforallLoop"
    /\ loop.mOrderIndependent <=>
         entry \in {"buildForeachLoop", "buildLoweredForallLoop"}
    /\ isLoweredForallLoopOf(loop) <=> entry = "buildLoweredForallLoop"
    /\ zipperedGetOf(loop) = args.zippered
    /\ isForExprOf(loop) = args.isForExpr
    /\ entry = "buildCoforallLoop" => ~isForExprOf(loop)
    /\ entry # "buildForeachLoop" => loop.fShadowVars = <<>>

C14_Witness ==
  /\ Built /\ entry = "buildLoweredForallLoop"
  /\ args.zippered /\ args.isForExpr
  /\ isLoweredForallLoopOf(loop) /\ loop.mOrderIndependent
  /\ zipperedGetOf(loop) /\ isForExprOf(loop)
  /\ ~isCoforallLoopOf(loop, symFlags)

(***************************************************************************)
(* C15: on a constructed node (index and iterator present) getFirstExpr    *)
(* returns the index reference, getNextExpr of the index returns the       *)
(* iterator reference, getNextExpr of the iterator returns the first       *)
(* expression of the first body statement, or the node itself when the     *)
(* body is empty, and getNextExpr of any other expression returns the      *)
(* node itself.                                                            *)
(***************************************************************************)
Constructed(node) == node.mIndex # NULL /\ node.mIterator # NULL

C15_CursorOrder ==
  (Built /\ Constructed(loop)) =>
    /\ lastOp.op = "getFirstExpr" => lastOp.expr = loop.mIndex
    /\ (lastOp.op = "getNextExpr" /\ lastOp.old = "mIndex") =>
         lastOp.expr = loop.mIterator
    /\ (lastOp.op = "getNextExpr" /\ lastOp.old = "mIterator") =>
         lastOp.expr = IF loop.body = <<>> THEN LoopNode
                       ELSE FirstExprOf(Head(loop.body))
    /\ (lastOp.op = "getNextExpr" /\ lastOp.old = "other") =>
         lastOp.expr = LoopNode

C15_Witness ==
  /\ Built /\ Constructed(loop)
  /\ lastOp.op = "getNextExpr" /\ lastOp.old = "mIterator"
  /\ loop.body # <<>>
  /\ lastOp.expr = FirstExprOf(Head(loop.body))
  /\ lastOp.expr # LoopNode

(***************************************************************************)
(* C16: a clone made by copyInner has the zippered, isForExpr and          *)
(* order-independent flags and the break and continue labels of the        *)
(* original, and its lowered-forall flag is false whatever the original's. *)
(***************************************************************************)
C16_CloneFlags ==
  (Built /\ lastOp.op = "copyInner") =>
    /\ zipperedGetOf(lastOp.clone) = zipperedGetOf(loop)
    /\ isForExprOf(lastOp.clone) = isForExprOf(loop)
    /\ lastOp.clone.mOrderIndependent = loop.mOrderIndependent
    /\ lastOp.clone.mBreakLabel = loop.mBreakLabel
    /\ lastOp.clone.mContinueLabel = loop.mContinueLabel
    /\ ~isLoweredForallLoopOf(lastOp.clone)

C16_Witness ==
  /\ Built /\ lastOp.op = "copyInner"
  /\ entry = "buildLoweredForallLoop"
  /\ isLoweredForallLoopOf(loop) /\ ~isLoweredForallLoopOf(lastOp.clone)
  /\ zipperedGetOf(lastOp.clone) /\ isForExprOf(lastOp.clone)
  /\ lastOp.clone.mOrderIndependent
  /\ lastOp.clone.mBreakLabel = Sym(BreakLabelName)

====
